---- MODULE Spec2Model ----
(***************************************************************************)
(* Model of the evdev device handle (device.go): Open/Close, the cached    *)
(* driver version, the capability and state queries built on the           *)
(* device-control transport and the bitmap decoder, Grab/Revoke, and the   *)
(* two event-stream read modes.                                            *)
(*                                                                         *)
(* The kernel side (the device's bit-fields, its driver version, the bytes *)
(* queued on the device node, the outcome of each device-control request)  *)
(* is the environment: its contents are drawn in the initial state, the    *)
(* success or failure of each single request is drawn when the request is  *)
(* issued.                                                                 *)
(***************************************************************************)
EXTENDS Integers, Sequences, FiniteSets, TLC

VARIABLES
    openFiles,  \* file resources currently open (identities of os.File objects)
    nextFile,   \* number of file resources opened so far
    handles,    \* the *InputDevice values Open has returned to the caller
    kernel,     \* the device as the kernel presents it: version, bit-fields, and
                \* the events it produces (with the bytes of a cut-off last record)
    pending,    \* bytes queued on the device node, not yet read
    op,         \* the last operation called
    arg,        \* its argument (event type), 0 when it has none
    self,       \* the file of the handle it was called on, 0 for Open
    reqs,       \* the requests that call issued to the kernel, in order
    ret         \* what that call returned: [val, err]

vars == <<openFiles, nextFile, handles, kernel, pending, op, arg, self, reqs, ret>>

----------------------------------------------------------------------------
(* Bounds of the model. *)

MaxFiles == 2       \* os.Open succeeds at most this many times
MaxBufLen == 2      \* longest code / state / property bit-field, in bytes
MaxExtra == 1       \* records queued beyond one full batch

(* Byte values the code, state and property bit-fields are built from:     *)
(* 5 = bits 0 and 2, 6 = bits 1 and 2.                                      *)
ByteVals == {0, 5, 6}

----------------------------------------------------------------------------
(* Event types (codes.go). *)

EV_SYN == 0
EV_KEY == 1
EV_REL == 2
EV_ABS == 3
EV_SW == 5
EV_LED == 17
EV_SND == 18
EV_REP == 20

(* The types a caller asks State for. *)
EvTypes == {EV_SYN, EV_KEY, EV_REL, EV_ABS, EV_SW, EV_LED, EV_SND, EV_REP}

----------------------------------------------------------------------------
(* Errors.  Every error is a record [kind, detail]; NoErr is Go's nil. *)

NoErr == [kind |-> "nil", detail |-> ""]

(* errno values a request on an open file can fail with. *)
Errnos == {"ENODEV", "EINVAL"}

(* What the transport hands back for a failed device-control request. *)
IoctlErr(errno) == [kind |-> "ioctl", detail |-> errno]

(* fmt.Errorf(prefix + ": %v", err) *)
Errorf(prefix, err) == [kind |-> prefix, detail |-> err.detail]

(* Outcomes of one request on file f: a closed file's descriptor is invalid. *)
Outcomes(f) == IF f \in openFiles THEN {"ok"} \cup Errnos ELSE {"EBADF"}

(* Outcomes of one query (bit-field, axis info) on file f.  Which errno a   *)
(* failed query reports changes nothing in what the queries do with it, so *)
(* one stands for all.                                                     *)
QueryOutcomes(f) == IF f \in openFiles THEN {"ok", "ENODEV"} ELSE {"EBADF"}

Req(name, a, outcome) == [req |-> name, arg |-> a, res |-> outcome]

(* Go's nil map and a non-nil map. *)
NilMap == [isNil |-> TRUE, m |-> <<>>]
MapOf(f) == [isNil |-> FALSE, m |-> f]

----------------------------------------------------------------------------
(* The device-control transport's view of the kernel (ioctl.go).  A request *)
(* either fails with an errno or returns what the kernel holds.             *)

(* An error value for a request's outcome: nil when it succeeded. *)
ioctlErr(outcome) == IF outcome = "ok" THEN NoErr ELSE IoctlErr(outcome)

(* EVIOCGVERSION: the driver version, an int32. *)
ioctlEVIOCGVERSION == kernel.version

(* EVIOCGBIT: selector 0 is the event-type bit-field, any other selector the *)
(* bit-field of that type's codes.                                          *)
ioctlEVIOCGBIT(sel) == IF sel = 0 THEN kernel.evBits ELSE kernel.codeBits

(* EVIOCGKEY, EVIOCGSW, EVIOCGLED, EVIOCGSND: the state bit-field. *)
ioctlEVIOCGSTATE == kernel.stateBits

(* EVIOCGPROP: the device-property bit-field. *)
ioctlEVIOCGPROP == kernel.propBits

(* EVIOCGABS: the axis info of one absolute axis. *)
ioctlEVIOCGABS(axis) ==
    [Value |-> axis, Minimum |-> 0 - axis, Maximum |-> 255, Fuzz |-> 0, Flat |-> 0,
     Resolution |-> 1]

----------------------------------------------------------------------------
(* Open, Close, DriverVersion, Grab, Revoke. *)

(* Open once os.Open's and the version query's outcomes are known; f is the *)
(* file os.Open creates.  The file stays open in every case in which        *)
(* os.Open succeeded; a handle is returned only when both succeeded.        *)
OpenResult(o, v, f) ==
    IF o # "ok"
    THEN [opened |-> {}, returned |-> {}, reqs |-> <<>>,
          ret |-> [val |-> {}, err |-> [kind |-> "open", detail |-> o]]]
    ELSE IF v # "ok"
    THEN [opened |-> {f}, returned |-> {},
          reqs |-> <<Req("EVIOCGVERSION", 0, v)>>,
          ret |-> [val |-> {}, err |-> Errorf("Cannot get driver version", ioctlErr(v))]]
    ELSE [opened |-> {f},
          returned |-> {[file |-> f, driverVersion |-> ioctlEVIOCGVERSION]},
          reqs |-> <<Req("EVIOCGVERSION", 0, v)>>,
          ret |-> [val |-> {[file |-> f, driverVersion |-> ioctlEVIOCGVERSION]},
                   err |-> NoErr]]

Open ==
    /\ nextFile < MaxFiles
    /\ \E o \in {"ok", "ENOENT"}, v \in {"ok"} \cup Errnos :
         LET r == OpenResult(o, v, nextFile + 1) IN
         /\ openFiles' = openFiles \cup r.opened
         /\ nextFile' = nextFile + Cardinality(r.opened)
         /\ handles' = handles \cup r.returned
         /\ op' = "Open" /\ arg' = 0 /\ self' = 0
         /\ reqs' = r.reqs
         /\ ret' = r.ret
    /\ UNCHANGED <<kernel, pending>>

Close ==
    \E h \in handles :
        /\ openFiles' = openFiles \ {h.file}
        /\ op' = "Close" /\ arg' = 0 /\ self' = h.file
        /\ reqs' = <<>>
        /\ ret' = [val |-> <<>>, err |-> NoErr]
        /\ UNCHANGED <<nextFile, handles, kernel, pending>>

(* v >> n on an int32 is an arithmetic shift: division rounding down. *)
shr(v, n) == v \div (2 ^ n)

(* v & 0xff *)
and0xff(v) == v % 256

(* Variant: the minor part taken without its shift. *)
DriverVersionMinorUnshifted(v) == <<shr(v, 16), and0xff(shr(v, 0)), and0xff(shr(v, 0))>>

DriverVersionResult(v) == <<shr(v, 16), and0xff(shr(v, 8)), and0xff(shr(v, 0))>>

DriverVersion ==
    \E h \in handles :
        /\ op' = "DriverVersion" /\ arg' = 0 /\ self' = h.file
        /\ reqs' = <<>>
        /\ ret' = [val |-> DriverVersionResult(h.driverVersion), err |-> NoErr]
        /\ UNCHANGED <<openFiles, nextFile, handles, kernel, pending>>

(* Grab and Revoke, once the request's outcome is known. *)
(* Variant: the request's error dropped. *)
GrabSwallowed(o) ==
    [reqs |-> <<Req("EVIOCGRAB", 0, o)>>, ret |-> [val |-> <<>>, err |-> NoErr]]

GrabResult(o) ==
    [reqs |-> <<Req("EVIOCGRAB", 0, o)>>, ret |-> [val |-> <<>>, err |-> ioctlErr(o)]]

RevokeResult(o) ==
    [reqs |-> <<Req("EVIOCREVOKE", 0, o)>>, ret |-> [val |-> <<>>, err |-> ioctlErr(o)]]

Grab ==
    \E h \in handles : \E o \in Outcomes(h.file) :
        /\ op' = "Grab" /\ arg' = 0 /\ self' = h.file
        /\ reqs' = GrabResult(o).reqs
        /\ ret' = GrabResult(o).ret
        /\ UNCHANGED <<openFiles, nextFile, handles, kernel, pending>>

Revoke ==
    \E h \in handles : \E o \in Outcomes(h.file) :
        /\ op' = "Revoke" /\ arg' = 0 /\ self' = h.file
        /\ reqs' = RevokeResult(o).reqs
        /\ ret' = RevokeResult(o).ret
        /\ UNCHANGED <<openFiles, nextFile, handles, kernel, pending>>

----------------------------------------------------------------------------
(* Initial states. *)

(* Driver versions the kernel may report: the int32 range's ends, the byte  *)
(* boundaries of the three fields, and the current evdev version 1.0.1.     *)
Versions ==
    {0, 1, 255, 256, 65535, 65536, 65537, 262419, 16777215, 16777216,
     2147483647, -1, -256, -65536, -65537, -2147483647 - 1}

NoDevice ==
    [version |-> 65537, evBits |-> <<>>, codeBits |-> <<>>, stateBits |-> <<>>,
     propBits |-> <<>>, events |-> <<>>, partial |-> 0]

Idle ==
    /\ op = "none" /\ arg = 0 /\ self = 0
    /\ reqs = <<>>
    /\ ret = [val |-> <<>>, err |-> NoErr]

(* Nothing opened yet; the kernel's driver version is any of Versions. *)
Init ==
    /\ openFiles = {} /\ nextFile = 0 /\ handles = {}
    /\ kernel \in {[NoDevice EXCEPT !.version = v] : v \in Versions}
    /\ pending = <<>>
    /\ Idle

Next == Open \/ Close \/ DriverVersion \/ Grab \/ Revoke

Spec == Init /\ [][Next]_vars

----------------------------------------------------------------------------
(* The bitmap decoder (bitmap.go): a byte buffer read as a little-endian    *)
(* bit-field.  Bit p is bit p % 8 of byte p / 8; a position beyond the      *)
(* buffer is not set.                                                       *)

newBitmap(bits) == [bits |-> bits]

bitIsSet(b, p) ==
    /\ p \div 8 < Len(b.bits)
    /\ (b.bits[p \div 8 + 1] \div (2 ^ (p % 8))) % 2 = 1

(* The set bits of one byte, ascending, from bit j on; i is the byte's index. *)
RECURSIVE byteBits(_, _, _)
byteBits(byt, i, j) ==
    IF j >= 8 THEN <<>>
    ELSE (IF (byt \div (2 ^ j)) % 2 = 1 THEN <<i * 8 + j>> ELSE <<>>)
             \o byteBits(byt, i, j + 1)

(* The set bits of the bytes from index i on (indices count from 0). *)
RECURSIVE setBitsFrom(_, _)
setBitsFrom(b, i) ==
    IF i >= Len(b.bits) THEN <<>>
    ELSE byteBits(b.bits[i + 1], i, 0) \o setBitsFrom(b, i + 1)

setBits(b) == setBitsFrom(b, 0)

(* The elements of a sequence. *)
Range(s) == {s[i] : i \in DOMAIN s}

----------------------------------------------------------------------------
(* State. *)

StateTypes == {EV_KEY, EV_SW, EV_LED, EV_SND}

UnsupportedErr == [kind |-> "Unsupported evType", detail |-> ""]

(* The check of the requested type against the event-type bit-field. *)
(* Variant: the check left out. *)
typeAlwaysSupported(evBits, t) == TRUE

typeSupported(evBits, t) == bitIsSet(newBitmap(evBits), t)

(* The switch on the type: the state request to issue, "" for the default   *)
(* branch, which issues none and sets the unsupported-type error.           *)
(* Variant: no default branch, every other type read as keys. *)
stateRequestNoDefault(t) ==
    CASE t = EV_KEY -> "EVIOCGKEY"
      [] t = EV_SW  -> "EVIOCGSW"
      [] t = EV_LED -> "EVIOCGLED"
      [] t = EV_SND -> "EVIOCGSND"
      [] OTHER      -> "EVIOCGKEY"

stateRequest(t) ==
    CASE t = EV_KEY -> "EVIOCGKEY"
      [] t = EV_SW  -> "EVIOCGSW"
      [] t = EV_LED -> "EVIOCGLED"
      [] t = EV_SND -> "EVIOCGSND"
      [] OTHER      -> ""

(* The loop over the supported codes: each one mapped to its state bit. *)
(* Variant: the bits set in the state bit-field added to the keys. *)
stateMapOfStateBits(codeBits, stateBits) ==
    [code \in Range(setBits(newBitmap(codeBits))) \cup Range(setBits(newBitmap(stateBits)))
        |-> bitIsSet(newBitmap(stateBits), code)]

stateMap(codeBits, stateBits) ==
    [code \in Range(setBits(newBitmap(codeBits))) |-> bitIsSet(newBitmap(stateBits), code)]

(* State(t), once the outcomes of the three requests it may issue are known: *)
(* o0 of the event-type query, o1 of the codes query, o2 of the state query. *)
StateResult(t, o0, o1, o2) ==
    LET r0 == Req("EVIOCGBIT", 0, o0)
        r1 == Req("EVIOCGBIT", t, o1)
        r2 == Req(stateRequest(t), 0, o2)
    IN  IF o0 # "ok"
        THEN [reqs |-> <<r0>>,
              ret |-> [val |-> NilMap, err |-> Errorf("Cannot get evBits", ioctlErr(o0))]]
        ELSE IF ~typeSupported(ioctlEVIOCGBIT(0), t)
        THEN [reqs |-> <<r0>>, ret |-> [val |-> MapOf(<<>>), err |-> NoErr]]
        ELSE IF o1 # "ok"
        THEN [reqs |-> <<r0, r1>>,
              ret |-> [val |-> NilMap, err |-> Errorf("Cannot get evBits", ioctlErr(o1))]]
        ELSE IF stateRequest(t) = ""
        THEN [reqs |-> <<r0, r1>>, ret |-> [val |-> NilMap, err |-> UnsupportedErr]]
        ELSE IF o2 # "ok"
        THEN [reqs |-> <<r0, r1, r2>>, ret |-> [val |-> NilMap, err |-> ioctlErr(o2)]]
        ELSE [reqs |-> <<r0, r1, r2>>,
              ret |-> [val |-> MapOf(stateMap(ioctlEVIOCGBIT(t), ioctlEVIOCGSTATE)),
                       err |-> NoErr]]

State ==
    \E h \in handles, t \in EvTypes :
      \E o0 \in QueryOutcomes(h.file), o1 \in QueryOutcomes(h.file),
         o2 \in QueryOutcomes(h.file) :
        /\ op' = "State" /\ arg' = t /\ self' = h.file
        /\ reqs' = StateResult(t, o0, o1, o2).reqs
        /\ ret' = StateResult(t, o0, o1, o2).ret
        /\ UNCHANGED <<openFiles, nextFile, handles, kernel, pending>>

----------------------------------------------------------------------------
(* CapableTypes and Properties. *)

(* Variant: the query's error not looked at. *)
CapableTypesUnchecked(o) ==
    [reqs |-> <<Req("EVIOCGBIT", 0, o)>>,
     ret |-> [val |-> setBits(newBitmap(ioctlEVIOCGBIT(0))), err |-> NoErr]]

CapableTypesResult(o) ==
    [reqs |-> <<Req("EVIOCGBIT", 0, o)>>,
     ret |-> [val |-> IF o # "ok" THEN <<>> ELSE setBits(newBitmap(ioctlEVIOCGBIT(0))),
              err |-> NoErr]]

PropertiesResult(o) ==
    [reqs |-> <<Req("EVIOCGPROP", 0, o)>>,
     ret |-> [val |-> IF o # "ok" THEN <<>> ELSE setBits(newBitmap(ioctlEVIOCGPROP)),
              err |-> NoErr]]

CapableTypes ==
    \E h \in handles : \E o \in QueryOutcomes(h.file) :
        /\ op' = "CapableTypes" /\ arg' = 0 /\ self' = h.file
        /\ reqs' = CapableTypesResult(o).reqs
        /\ ret' = CapableTypesResult(o).ret
        /\ UNCHANGED <<openFiles, nextFile, handles, kernel, pending>>

Properties ==
    \E h \in handles : \E o \in QueryOutcomes(h.file) :
        /\ op' = "Properties" /\ arg' = 0 /\ self' = h.file
        /\ reqs' = PropertiesResult(o).reqs
        /\ ret' = PropertiesResult(o).ret
        /\ UNCHANGED <<openFiles, nextFile, handles, kernel, pending>>

----------------------------------------------------------------------------
(* AbsInfos. *)

(* The loop over the set bits of the axis bit-field: axes is what is left   *)
(* of them, outs the outcome of each axis's query.                          *)
(* Variant: the loop left at the first axis whose query fails. *)
RECURSIVE absLoopAbort(_, _)
absLoopAbort(axes, outs) ==
    IF axes = <<>> THEN [reqs |-> <<>>, a |-> <<>>]
    ELSE LET abs == Head(axes)
             rest == IF outs[abs] = "ok" THEN absLoopAbort(Tail(axes), outs)
                     ELSE [reqs |-> <<>>, a |-> <<>>]
         IN  [reqs |-> <<Req("EVIOCGABS", abs, outs[abs])>> \o rest.reqs,
              a |-> IF outs[abs] = "ok"
                    THEN (abs :> ioctlEVIOCGABS(abs)) @@ rest.a
                    ELSE rest.a]

RECURSIVE absLoop(_, _)
absLoop(axes, outs) ==
    IF axes = <<>> THEN [reqs |-> <<>>, a |-> <<>>]
    ELSE LET abs == Head(axes)
             rest == absLoop(Tail(axes), outs)
         IN  [reqs |-> <<Req("EVIOCGABS", abs, outs[abs])>> \o rest.reqs,
              a |-> IF outs[abs] = "ok"
                    THEN (abs :> ioctlEVIOCGABS(abs)) @@ rest.a
                    ELSE rest.a]

(* AbsInfos, once the outcome o of the axis bit-field query and the outcome *)
(* outs[abs] of each axis's query are known.                                *)
AbsInfosResult(o, outs) ==
    IF o # "ok"
    THEN [reqs |-> <<Req("EVIOCGBIT", EV_ABS, o)>>,
          ret |-> [val |-> NilMap, err |-> Errorf("Cannot get absBits", ioctlErr(o))]]
    ELSE LET l == absLoop(setBits(newBitmap(ioctlEVIOCGBIT(EV_ABS))), outs)
         IN  [reqs |-> <<Req("EVIOCGBIT", EV_ABS, o)>> \o l.reqs,
              ret |-> [val |-> MapOf(l.a), err |-> NoErr]]

AbsInfos ==
    \E h \in handles : \E o \in QueryOutcomes(h.file) :
      \E outs \in [Range(setBits(newBitmap(ioctlEVIOCGBIT(EV_ABS)))) -> QueryOutcomes(h.file)] :
        /\ op' = "AbsInfos" /\ arg' = 0 /\ self' = h.file
        /\ reqs' = AbsInfosResult(o, outs).reqs
        /\ ret' = AbsInfosResult(o, outs).ret
        /\ UNCHANGED <<openFiles, nextFile, handles, kernel, pending>>

----------------------------------------------------------------------------
(* The queries on one open handle, for every content of the bit-fields.     *)

(* All byte buffers of at most n bytes over ByteVals. *)
Buffers(n) == UNION {[1..k -> ByteVals] : k \in 0..n}

(* Event-type bit-fields: KEY+SW in one byte, REL+LED+SND, and              *)
(* SYN+KEY+REL+ABS+SW+LED+SND+REP.                                          *)
EvBitsInputs == {<<34>>, <<4, 0, 6>>, <<47, 0, 22>>}

(* The handle Open returned for the first file. *)
OpenHandle == [file |-> 1, driverVersion |-> NoDevice.version]

Opened == openFiles = {1} /\ nextFile = 1 /\ handles = {OpenHandle}

(* State on one open handle: every event-type, code and state bit-field. *)
InitState ==
    /\ Opened
    /\ kernel \in {[NoDevice EXCEPT !.evBits = e, !.codeBits = c, !.stateBits = s] :
                     e \in EvBitsInputs, c \in Buffers(MaxBufLen), s \in Buffers(MaxBufLen)}
    /\ pending = <<>>
    /\ Idle

NextState == State

SpecState == InitState /\ [][NextState]_vars

(* CapableTypes, Properties and AbsInfos on one open handle: every           *)
(* event-type bit-field, with every axis or every property bit-field.       *)
InitQuery ==
    /\ Opened
    /\ kernel \in {[NoDevice EXCEPT !.evBits = e, !.codeBits = c] :
                     e \in EvBitsInputs \cup {<<>>}, c \in Buffers(MaxBufLen)}
               \cup {[NoDevice EXCEPT !.propBits = p] : p \in Buffers(MaxBufLen)}
    /\ pending = <<>>
    /\ Idle

NextQuery == CapableTypes \/ Properties \/ AbsInfos

SpecQuery == InitQuery /\ [][NextQuery]_vars

----------------------------------------------------------------------------
(* The event stream.  A record is 24 bytes, little-endian: seconds and      *)
(* microseconds (int64 each), type and code (uint16 each), value (int32).   *)

eventsize == 24

(* The number of records Read makes room for. *)
batch == 16

(* The n bytes of v, least significant first, two's complement. *)
RECURSIVE leBytes(_, _)
leBytes(v, n) == IF n = 0 THEN <<>> ELSE <<v % 256>> \o leBytes(v \div 256, n - 1)

(* The record as the kernel writes it to the stream. *)
encodeEvent(e) ==
    leBytes(e.Sec, 8) \o leBytes(e.Usec, 8) \o leBytes(e.Type, 2) \o leBytes(e.Code, 2)
        \o leBytes(e.Value, 4)

RECURSIVE encodeEvents(_)
encodeEvents(es) ==
    IF es = <<>> THEN <<>> ELSE encodeEvent(Head(es)) \o encodeEvents(Tail(es))

(* binary.Read of an unsigned and of a signed little-endian integer held in *)
(* the n bytes of b that follow offset k.                                   *)
RECURSIVE leUnsigned(_, _, _)
leUnsigned(b, k, n) ==
    IF n = 0 THEN 0 ELSE b[k + 1] + 256 * leUnsigned(b, k + 1, n - 1)

RECURSIVE leSigned(_, _, _)
leSigned(b, k, n) ==
    IF n = 1 THEN (IF b[k + 1] >= 128 THEN b[k + 1] - 256 ELSE b[k + 1])
    ELSE b[k + 1] + 256 * leSigned(b, k + 1, n - 1)

(* binary.Read of the record that starts at offset k of b. *)
decodeEvent(b, k) ==
    [Sec |-> leSigned(b, k, 8), Usec |-> leSigned(b, k + 8, 8),
     Type |-> leUnsigned(b, k + 16, 2), Code |-> leUnsigned(b, k + 18, 2),
     Value |-> leSigned(b, k + 20, 4)]

(* InputEvent{} *)
ZeroEvent == [Sec |-> 0, Usec |-> 0, Type |-> 0, Code |-> 0, Value |-> 0]

(* make([]byte, size) after file.Read has stored data at its start. *)
filled(data, size) == data \o [i \in 1..(size - Len(data)) |-> 0]

(* The loop that cuts the decoded records at the first one whose seconds    *)
(* are zero.                                                                *)
(* Variant: only the zero-seconds records at the end removed. *)
RECURSIVE trimTrailing(_)
trimTrailing(events) ==
    IF events # <<>> /\ events[Len(events)].Sec = 0
    THEN trimTrailing(SubSeq(events, 1, Len(events) - 1))
    ELSE events

RECURSIVE trimFrom(_, _)
trimFrom(events, i) ==
    IF i > Len(events) THEN events
    ELSE IF events[i].Sec = 0 THEN SubSeq(events, 1, i - 1)
    ELSE trimFrom(events, i + 1)

trim(events) == trimFrom(events, 1)

(* Read, once file.Read has returned: data are the bytes it stored (none    *)
(* when it failed), o is its outcome.                                       *)
ReadResult(data, o) ==
    IF o # "ok"
    THEN [val |-> [i \in 1..batch |-> ZeroEvent], err |-> [kind |-> "read", detail |-> o]]
    ELSE LET buffer == filled(data, eventsize * batch)
             events == [i \in 1..batch |-> decodeEvent(buffer, eventsize * (i - 1))]
         IN  [val |-> trim(events), err |-> NoErr]

(* ReadOne, once file.Read has returned. *)
ReadOneResult(data, o) ==
    IF o # "ok"
    THEN [val |-> ZeroEvent, err |-> [kind |-> "read", detail |-> o]]
    ELSE [val |-> decodeEvent(filled(data, eventsize), 0), err |-> NoErr]

(* The first n elements of s, all of s when it has fewer. *)
Take(s, n) == SubSeq(s, 1, IF Len(s) < n THEN Len(s) ELSE n)

Drop(s, n) == SubSeq(s, n + 1, Len(s))

(* How file.Read can fail on file f: the device went away, or the file is   *)
(* closed.                                                                  *)
ReadFailures(f) == IF f \in openFiles THEN {"ENODEV"} ELSE {"ErrClosed"}

(* file.Read into a buffer of size bytes: it fails, or, when bytes are      *)
(* queued, stores as many of them as fit (it blocks while none are).        *)
Read ==
    \E h \in handles :
        /\ op' = "Read" /\ arg' = 0 /\ self' = h.file
        /\ \/ \E o \in ReadFailures(h.file) :
                /\ reqs' = <<Req("read", 0, o)>>
                /\ ret' = ReadResult(<<>>, o)
                /\ pending' = pending
           \/ /\ h.file \in openFiles
              /\ pending # <<>>
              /\ LET data == Take(pending, eventsize * batch) IN
                 /\ reqs' = <<Req("read", Len(data), "ok")>>
                 /\ ret' = ReadResult(data, "ok")
                 /\ pending' = Drop(pending, Len(data))
        /\ UNCHANGED <<openFiles, nextFile, handles, kernel>>

ReadOne ==
    \E h \in handles :
        /\ op' = "ReadOne" /\ arg' = 0 /\ self' = h.file
        /\ \/ \E o \in ReadFailures(h.file) :
                /\ reqs' = <<Req("read", 0, o)>>
                /\ ret' = ReadOneResult(<<>>, o)
                /\ pending' = pending
           \/ /\ h.file \in openFiles
              /\ pending # <<>>
              /\ LET data == Take(pending, eventsize) IN
                 /\ reqs' = <<Req("read", Len(data), "ok")>>
                 /\ ret' = ReadOneResult(data, "ok")
                 /\ pending' = Drop(pending, Len(data))
        /\ UNCHANGED <<openFiles, nextFile, handles, kernel>>

----------------------------------------------------------------------------
(* Reading on one open handle, for a range of event streams.                *)

(* The i-th event of a stream whose z-th event has zero seconds. *)
EventAt(i, z) ==
    [Sec |-> IF i = z THEN 0 ELSE 1000 + i, Usec |-> 500 + i, Type |-> EV_KEY,
     Code |-> 30 + i, Value |-> IF i % 2 = 1 THEN 1 ELSE -1]

(* Where a stream may hold its zero-seconds event (0: nowhere). *)
ZeroAt == {0, 1, 3, batch}

(* How many bytes of one further record a stream may end with. *)
PartialLens == {0, 1, 8, 23}

(* The streams: up to a full batch and MaxExtra more records, then the cut  *)
(* record.                                                                  *)
Streams ==
    {[events |-> [i \in 1..k |-> EventAt(i, z)], partial |-> p] :
        k \in 0..(batch + MaxExtra), z \in ZeroAt, p \in PartialLens}

(* The bytes the kernel has queued for a stream. *)
Queued(st) ==
    encodeEvents(st.events)
        \o SubSeq(encodeEvent(EventAt(Len(st.events) + 1, 0)), 1, st.partial)

InitRead ==
    /\ Opened
    /\ \E st \in Streams :
        /\ kernel = [NoDevice EXCEPT !.events = st.events, !.partial = st.partial]
        /\ pending = Queued(st)
    /\ Idle

NextRead == Read \/ ReadOne

SpecRead == InitRead /\ [][NextRead]_vars

----------------------------------------------------------------------------
(* Bit-fields as the properties below speak of them: on the bytes. *)

(* Bit p of the little-endian bit-field buf is set. *)
Bit(buf, p) ==
    \E i \in 1..Len(buf) : \E j \in 0..7 :
        /\ p = 8 * (i - 1) + j
        /\ (buf[i] \div (2 ^ j)) % 2 = 1

(* The positions set in buf. *)
Bits(buf) == {p \in 0..(8 * Len(buf)) : Bit(buf, p)}

(* s is strictly ascending. *)
Ascending(s) == \A i, j \in DOMAIN s : i < j => s[i] < s[j]

----------------------------------------------------------------------------
(* State. *)

(* C1: a successful State(t), t one of key, switch, LED, sound and marked   *)
(* in the event-type bit-field, returns a map whose keys are exactly the    *)
(* bits set in the supported-codes bit-field, each mapped to whether that   *)
(* bit is set in the state bit-field.                                       *)
C1_StateIsIntersection ==
    (/\ op = "State"
     /\ arg \in StateTypes
     /\ Bit(kernel.evBits, arg)
     /\ ret.err = NoErr)
    =>  /\ ~ret.val.isNil
        /\ DOMAIN ret.val.m = Bits(kernel.codeBits)
        /\ \A c \in DOMAIN ret.val.m : ret.val.m[c] = Bit(kernel.stateBits, c)

(* State(EV_LED) where the state bit-field is shorter than the codes        *)
(* bit-field and has bit 1 set, which is no supported code.                 *)
C1_Witness ==
    /\ op = "State" /\ arg = EV_LED /\ ret.err = NoErr
    /\ kernel.codeBits = <<5, 6>>
    /\ kernel.stateBits = <<6>>
    /\ DOMAIN ret.val.m = {0, 2, 9, 10}
    /\ ret.val.m[2] /\ ~ret.val.m[0] /\ ~ret.val.m[9] /\ ~ret.val.m[10]

(* C2: when the event-type query succeeds and the requested type is not     *)
(* marked in it, State returns an empty map and no error and has issued no  *)
(* other request, whatever the codes and state queries would have answered. *)
C2_UnmarkedTypeIsEmpty ==
    (/\ op = "State"
     /\ reqs[1].res = "ok"
     /\ ~Bit(kernel.evBits, arg))
    =>  /\ ret.err = NoErr
        /\ ~ret.val.isNil
        /\ DOMAIN ret.val.m = {}
        /\ reqs = <<Req("EVIOCGBIT", 0, "ok")>>

(* State(EV_SND) on a device whose one-byte event-type bit-field ends       *)
(* before bit 18, with code and state bits the kernel would have returned.  *)
C2_Witness ==
    /\ op = "State" /\ arg = EV_SND
    /\ kernel.evBits = <<34>>
    /\ kernel.codeBits = <<5>> /\ kernel.stateBits = <<5>>
    /\ ret = [val |-> MapOf(<<>>), err |-> NoErr]
    /\ Len(reqs) = 1

(* C3, as first stated: State of a type outside key, switch, LED, sound fails with *)
(* the unsupported-type error and issues no device-control request.         *)
C3_UnsupportedNotAttempted ==
    (op = "State" /\ arg \notin StateTypes)
    =>  /\ ret.err = UnsupportedErr
        /\ reqs = <<>>

(* C3, amended: State of a type outside key, switch, LED, sound never       *)
(* issues a state query and never returns a non-empty map.  It issues the   *)
(* event-type query, whose failure it returns as "Cannot get evBits"; for a *)
(* type that is not marked it returns an empty map and no error; for a      *)
(* marked type it issues the codes query, whose failure it returns as       *)
(* "Cannot get evBits", and fails with the unsupported-type error exactly   *)
(* when both queries succeeded.                                             *)
C3_UnsupportedAfterQueries ==
    (op = "State" /\ arg \notin StateTypes)
    =>  /\ \A i \in DOMAIN reqs : reqs[i].req = "EVIOCGBIT"
        /\ DOMAIN ret.val.m = {}
        /\ reqs[1] = Req("EVIOCGBIT", 0, reqs[1].res)
        /\ reqs[1].res # "ok" =>
              /\ Len(reqs) = 1
              /\ ret.err = Errorf("Cannot get evBits", IoctlErr(reqs[1].res))
        /\ (reqs[1].res = "ok" /\ ~Bit(kernel.evBits, arg)) =>
              /\ Len(reqs) = 1
              /\ ret = [val |-> MapOf(<<>>), err |-> NoErr]
        /\ (reqs[1].res = "ok" /\ Bit(kernel.evBits, arg)) =>
              /\ Len(reqs) = 2
              /\ reqs[2] = Req("EVIOCGBIT", arg, reqs[2].res)
              /\ ret.val = NilMap
              /\ ret.err = IF reqs[2].res = "ok" THEN UnsupportedErr
                           ELSE Errorf("Cannot get evBits", IoctlErr(reqs[2].res))

(* State(EV_REL) on a device that marks EV_REL: both queries were issued.   *)
C3_Witness ==
    /\ op = "State" /\ arg = EV_REL
    /\ Bit(kernel.evBits, EV_REL)
    /\ reqs = <<Req("EVIOCGBIT", 0, "ok"), Req("EVIOCGBIT", EV_REL, "ok")>>
    /\ ret = [val |-> NilMap, err |-> UnsupportedErr]

----------------------------------------------------------------------------
(* CapableTypes, Properties, AbsInfos. *)

(* C8: CapableTypes and Properties return no error; each issues exactly one *)
(* bit-field query (EVIOCGBIT with selector 0, EVIOCGPROP); the result is   *)
(* empty if the query failed, and otherwise the positions set in the        *)
(* bit-field, ascending and without duplicates.                             *)
C8_LenientEnumeration ==
    op \in {"CapableTypes", "Properties"} =>
        LET buf == IF op = "CapableTypes" THEN kernel.evBits ELSE kernel.propBits
            q == IF op = "CapableTypes" THEN "EVIOCGBIT" ELSE "EVIOCGPROP"
        IN  /\ ret.err = NoErr
            /\ reqs = <<Req(q, 0, reqs[1].res)>>
            /\ reqs[1].res # "ok" => ret.val = <<>>
            /\ reqs[1].res = "ok" =>
                  /\ Range(ret.val) = Bits(buf)
                  /\ Ascending(ret.val)

(* A failed event-type query on a device that does mark types. *)
C8_Witness ==
    /\ op = "CapableTypes"
    /\ reqs[1].res = "ENODEV"
    /\ Bits(kernel.evBits) # {}
    /\ ret = [val |-> <<>>, err |-> NoErr]

(* A successful property query. *)
C8_PropertiesReached ==
    /\ op = "Properties"
    /\ kernel.propBits = <<0, 6>>
    /\ ret = [val |-> <<9, 10>>, err |-> NoErr]

(* C9: AbsInfos issues the axis bit-field query first and fails, with a nil *)
(* map, exactly when it fails.  Otherwise it issues one axis-info query per *)
(* set bit, ascending, whatever the earlier ones answered, and returns, with *)
(* no error, the map from each axis whose query succeeded to its info.      *)
C9_AbsInfosSkipsFailedAxes ==
    op = "AbsInfos" =>
        /\ reqs[1] = Req("EVIOCGBIT", EV_ABS, reqs[1].res)
        /\ reqs[1].res # "ok" =>
              /\ Len(reqs) = 1
              /\ ret = [val |-> NilMap,
                        err |-> Errorf("Cannot get absBits", IoctlErr(reqs[1].res))]
        /\ reqs[1].res = "ok" =>
              LET axisReqs == Tail(reqs)
                  asked == [i \in DOMAIN axisReqs |-> axisReqs[i].arg]
              IN  /\ ret.err = NoErr
                  /\ ~ret.val.isNil
                  /\ \A i \in DOMAIN axisReqs : axisReqs[i].req = "EVIOCGABS"
                  /\ Range(asked) = Bits(kernel.codeBits)
                  /\ Ascending(asked)
                  /\ DOMAIN ret.val.m =
                        {axisReqs[i].arg : i \in {j \in DOMAIN axisReqs : axisReqs[j].res = "ok"}}
                  /\ \A c \in DOMAIN ret.val.m : ret.val.m[c] = ioctlEVIOCGABS(c)

(* The first axis's query failed, the later ones were still issued and the  *)
(* map holds the ones that succeeded.                                       *)
C9_Witness ==
    /\ op = "AbsInfos"
    /\ Len(reqs) = 5
    /\ reqs[2] = Req("EVIOCGABS", 0, "ENODEV")
    /\ reqs[3] = Req("EVIOCGABS", 2, "ok")
    /\ reqs[4] = Req("EVIOCGABS", 9, "ENODEV")
    /\ reqs[5] = Req("EVIOCGABS", 10, "ok")
    /\ DOMAIN ret.val.m = {2, 10}
    /\ ret.err = NoErr

----------------------------------------------------------------------------
(* Read and ReadOne. *)

(* The offset in the device's stream at which the last file.Read began. *)
ReadStart ==
    eventsize * Len(kernel.events) + kernel.partial - Len(pending) - reqs[1].arg

(* The longest prefix of s that holds no record with zero seconds. *)
ValidPrefix(s) ==
    LET k == CHOOSE n \in 0..Len(s) :
                 /\ \A i \in 1..n : s[i].Sec # 0
                 /\ n = Len(s) \/ s[n + 1].Sec = 0
    IN  SubSeq(s, 1, k)

(* C4: when file.Read delivers K whole records of the stream (K <= 16), the *)
(* rest of the buffer being zero, Read returns without error the longest    *)
(* prefix of those K records that holds no record with zero seconds: all K, *)
(* in order and field by field as the kernel produced them, when all are    *)
(* valid, and all 16 of a full block of valid records.                      *)
C4_BatchReadTrimsAtZeroSeconds ==
    (/\ op = "Read"
     /\ reqs[1].res = "ok"
     /\ reqs[1].arg % eventsize = 0
     /\ ReadStart % eventsize = 0)
    =>  LET first == ReadStart \div eventsize
            K == reqs[1].arg \div eventsize
            block == SubSeq(kernel.events, first + 1, first + K)
        IN  /\ K <= batch
            /\ ret.err = NoErr
            /\ ret.val = ValidPrefix(block)
            /\ (\A i \in 1..K : block[i].Sec # 0) => ret.val = block

(* Three valid records and zero padding. *)
C4_Witness ==
    /\ op = "Read"
    /\ reqs = <<Req("read", 3 * eventsize, "ok")>>
    /\ ret.val = <<EventAt(1, 0), EventAt(2, 0), EventAt(3, 0)>>
    /\ ret.err = NoErr

(* A full block of valid records, with more queued behind it. *)
C4_FullBlockReached ==
    /\ op = "Read"
    /\ reqs = <<Req("read", batch * eventsize, "ok")>>
    /\ Len(ret.val) = batch
    /\ \A i \in 1..batch : ret.val[i] = EventAt(i, 0)
    /\ pending # <<>>

(* A zero-seconds record among valid ones cuts the result. *)
C4_SentinelReached ==
    /\ op = "Read"
    /\ reqs = <<Req("read", 5 * eventsize, "ok")>>
    /\ kernel.events[3].Sec = 0
    /\ ret.val = <<EventAt(1, 0), EventAt(2, 0)>>

(* C5: whenever file.Read delivers, without an error of its own, fewer      *)
(* bytes than one record, ReadOne and Read return an error.                 *)
C5_ShortReadFails ==
    (/\ op \in {"Read", "ReadOne"}
     /\ reqs[1].res = "ok"
     /\ reqs[1].arg < eventsize)
    => ret.err # NoErr

(* The short reads do happen, in both modes. *)
C5_ShortReadReached ==
    /\ op \in {"Read", "ReadOne"}
    /\ reqs[1].res = "ok"
    /\ reqs[1].arg < eventsize

----------------------------------------------------------------------------
(* Open and Close: ownership of the file resource. *)

(* C6: when the driver-version query of Open fails, the file Open has opened *)
(* is owned by a handle the caller holds, and at every moment every open     *)
(* file resource is owned by a handle that was returned to the caller.       *)
C6_OpenedFileIsOwned ==
    /\ (op = "Open" /\ ret.err.kind = "Cannot get driver version")
           => \E h \in handles : h.file = nextFile
    /\ \A f \in openFiles : \E h \in handles : h.file = f

----------------------------------------------------------------------------
(* DriverVersion. *)

(* The handle the last operation was called on. *)
Self == CHOOSE h \in handles : h.file = self

(* C7: DriverVersion returns (v >> 16, (v >> 8) & 0xff, v & 0xff) of the     *)
(* cached int32 v: the triple recomposes to v, minor and micro are within   *)
(* 0..255, 0x00040113 gives (4, 1, 19), the call returns no error and       *)
(* issues no device-control request.                                        *)
C7_DriverVersion ==
    op = "DriverVersion" =>
        LET v == Self.driverVersion
            major == ret.val[1]
            minor == ret.val[2]
            micro == ret.val[3]
        IN  /\ major * 65536 + minor * 256 + micro = v
            /\ minor \in 0..255
            /\ micro \in 0..255
            /\ (v = 262419 => ret.val = <<4, 1, 19>>)
            /\ ret.err = NoErr
            /\ reqs = <<>>

C7_Witness ==
    /\ op = "DriverVersion"
    /\ Self.driverVersion = 262419
    /\ ret.val = <<4, 1, 19>>

(* A negative cached version is decoded as well. *)
C7_NegativeReached ==
    /\ op = "DriverVersion"
    /\ Self.driverVersion = -65537
    /\ ret.val = <<-2, 255, 255>>

----------------------------------------------------------------------------
(* Grab and Revoke. *)

(* C10: every Grab and every Revoke issues exactly one device-control        *)
(* request (EVIOCGRAB, EVIOCREVOKE) and returns that request's outcome      *)
(* unchanged, whatever was called before; the call leaves the caller's      *)
(* handles and the open file resources as they were.                        *)
C10_GrabRevokePassThrough ==
    /\ [](op \in {"Grab", "Revoke"} =>
            /\ Len(reqs) = 1
            /\ reqs[1].req = (IF op = "Grab" THEN "EVIOCGRAB" ELSE "EVIOCREVOKE")
            /\ ret.err = ioctlErr(reqs[1].res))
    /\ [][op' \in {"Grab", "Revoke"} =>
            (handles' = handles /\ openFiles' = openFiles)]_vars

(* A Grab that the kernel refused, on a file that is still open. *)
C10_Witness ==
    /\ op = "Grab"
    /\ self \in openFiles
    /\ reqs = <<Req("EVIOCGRAB", 0, "EINVAL")>>
    /\ ret.err = IoctlErr("EINVAL")

====
